---- MODULE Spec2Model ----
(***************************************************************************)
(* Verification model of the interview-practice application (H2S):         *)
(*   - src/utils/metrics_calculator.py   score extraction and aggregation  *)
(*   - src/services/ai_service.py        retry wrapper, reply splitting    *)
(*                                                                         *)
(* Text is modelled as a sequence of lexical tokens separated by           *)
(* whitespace.  A token is a record [k, c, w, f]:                          *)
(*   k = "lab"   the exact label of category c with its colon, e.g.        *)
(*               "Knowledge Depth:" (for experience_match: "Score:")       *)
(*   k = "word"  the keyword c without colon ("Knowledge", "alignment",    *)
(*               "Experience", "Score", ...)                               *)
(*   k = "num"   the decimal numeral w.f (f in hundredths)                 *)
(*   k = "num10" the decimal numeral w.f immediately followed by "/10"     *)
(*   k = "dash"  the bullet "- " in front of the next token                *)
(*   k = "txt"   any other word (no digit, no keyword)                     *)
(* Numbers are kept in hundredths: 7.5 is 750.                             *)
(***************************************************************************)
EXTENDS Integers, Sequences, FiniteSets, TLC

(***************************************************************************)
(* Bounds of the model                                                     *)
(***************************************************************************)
MaxLen == 3
MaxFocusLen == 5
MaxMessages == 3

(***************************************************************************)
(* Program constants                                                       *)
(***************************************************************************)
MinScore == 100
MaxScore == 1000
MaxFallback == 6
NoMatch == -1

VARIABLES
    content,        \* the text handed to extract_scores_from_text
    scores,         \* the mapping it returned
    extracted,      \* the call has returned
    messages,       \* the message history (st.session_state.messages)
    metrics,        \* what calculate_role_specific_metrics returned
    calculated,     \* the call has returned
    response_text,  \* the reply generate_content handed to evaluate_response
    evaluation,     \* the dictionary evaluate_response returned
    evaluated,      \* the call has returned
    pc,             \* where the retry wrapper is: idle, running, returned, raised
    decoration,     \* the wrapper in use and the arguments of its decorator
    retries,        \* the wrapper's local counter
    last_error,     \* the wrapper's local last_error
    calls,          \* what each invocation of the wrapped function did
    sleeps,         \* the arguments of the time.sleep calls, in order
    outcome,        \* what the wrapper handed to its caller
    user_input,     \* the answer the candidate has typed so far
    validation,     \* what validate_user_input returned for it
    validated,      \* the call has returned
    now,            \* time.time(), in half seconds since the session began
    request_count,  \* st.session_state.request_count
    last_request_time,  \* st.session_state.last_request_time
    interview_history,  \* st.session_state.interview_history
    session_stats,  \* st.session_state.session_stats
    interview_started,  \* st.session_state.interview_started
    is_processing,  \* st.session_state.is_processing
    current_response,   \* st.session_state.current_response
    shown,          \* the st.warning and st.error boxes shown, in order
    evaluations,    \* the calls of AIService.evaluate_response, in order
    returned,       \* the calls of the controller and what each returned
    experience_level,   \* the experience_level given to analyze_response
    response,       \* what self.model.generate_content did in that call
    analysis,       \* the score of the dictionary analyze_response returned
    analyzed        \* the call has returned

extractVars == <<content, scores, extracted>>
metricsVars == <<messages, metrics, calculated>>
evalVars == <<response_text, evaluation, evaluated>>
retryVars == <<pc, decoration, retries, last_error, calls, sleeps, outcome>>

validateVars == <<user_input, validation, validated>>
sessionVars == <<now, request_count, last_request_time, interview_history,
                 session_stats, interview_started, is_processing,
                 current_response, shown, evaluations, returned>>

analyzeVars == <<experience_level, response, analysis, analyzed>>

vars == <<extractVars, metricsVars, evalVars, retryVars, validateVars, sessionVars,
          analyzeVars>>

(***************************************************************************)
(* Tokens                                                                  *)
(***************************************************************************)
Lab(c) == [k |-> "lab", c |-> c, w |-> 0, f |-> 0]
Word(c) == [k |-> "word", c |-> c, w |-> 0, f |-> 0]
Num(w, f) == [k |-> "num", c |-> "", w |-> w, f |-> f]
Num10(w, f) == [k |-> "num10", c |-> "", w |-> w, f |-> f]
Dash == [k |-> "dash", c |-> "", w |-> 0, f |-> 0]
Txt == [k |-> "txt", c |-> "", w |-> 0, f |-> 0]

\* the keys of the patterns dictionary, in insertion order
Categories ==
    <<"knowledge_depth", "implementation", "best_practices", "clarity",
      "structure", "professionalism", "experience_match">>

CategorySet == {Categories[i] : i \in 1..Len(Categories)}

\* the keyword of the third (loose) pattern of the six labelled categories;
\* it is a prefix of the category's exact label
LabelWord(c) ==
    CASE c = "knowledge_depth" -> "Knowledge"
      [] c = "implementation" -> "Implementation"
      [] c = "best_practices" -> "Best Practices"
      [] c = "clarity" -> "Clarity"
      [] c = "structure" -> "Structure"
      [] c = "professionalism" -> "Professionalism"
      [] c = "experience_match" -> "Score"

\* float(match.group(1)), in hundredths
float(tok) == 100 * tok.w + tok.f

\* \d+(?:\.\d+)? matches the numeral of a num token and of a num10 token
IsNumber(tok) == tok.k \in {"num", "num10"}

\* the keyword w occurs in the token (re.IGNORECASE substring of its text)
Contains(tok, w) ==
    \/ tok.k = "word" /\ tok.c = w
    \/ tok.k = "lab" /\ LabelWord(tok.c) = w

\* re.search returns the leftmost match
Leftmost(S) == IF S = {} THEN 0 ELSE CHOOSE i \in S : \A j \in S : i <= j

(***************************************************************************)
(* The pattern lists                                                       *)
(***************************************************************************)
Exact(c, bullet) == [kind |-> "exact", cat |-> c, bullet |-> bullet, w1 |-> "", w2 |-> ""]
Loose(w) == [kind |-> "loose", cat |-> "", bullet |-> FALSE, w1 |-> w, w2 |-> ""]
Chain(w1, w2) == [kind |-> "chain", cat |-> "", bullet |-> FALSE, w1 |-> w1, w2 |-> w2]

patterns_loose_first(c) ==
    IF c = "experience_match"
    THEN <<Loose("alignment"), Exact(c, FALSE), Chain("Experience", "Score")>>
    ELSE <<Loose(LabelWord(c)), Exact(c, FALSE), Exact(c, TRUE)>>

patterns(c) ==
    IF c = "experience_match"
    THEN <<Exact(c, FALSE), Loose("alignment"), Chain("Experience", "Score")>>
    ELSE <<Exact(c, FALSE), Exact(c, TRUE), Loose(LabelWord(c))>>

\* 'Label:\s*(\d+(?:\.\d+)?)' and '- Label:\s*(\d+(?:\.\d+)?)'
SearchExact(p, text) ==
    LET off == IF p.bullet THEN 1 ELSE 0
        S == {i \in 1..(Len(text) - 1 - off) :
                /\ p.bullet => text[i] = Dash
                /\ text[i + off] = Lab(p.cat)
                /\ IsNumber(text[i + off + 1])}
        i0 == Leftmost(S)
    IN  IF i0 = 0 THEN NoMatch ELSE float(text[i0 + off + 1])

\* 'Word.*?(\d+(?:\.\d+)?)/10' : first "N/10" after the first keyword
SearchLoose(p, text) ==
    LET i0 == Leftmost({i \in 1..Len(text) : Contains(text[i], p.w1)})
        j0 == IF i0 = 0 THEN 0
              ELSE Leftmost({j \in (i0 + 1)..Len(text) : text[j].k = "num10"})
    IN  IF j0 = 0 THEN NoMatch ELSE float(text[j0])

\* 'Experience.*?Score.*?(\d+(?:\.\d+)?)'
SearchChain(p, text) ==
    LET i0 == Leftmost({i \in 1..Len(text) : Contains(text[i], p.w1)})
        j0 == IF i0 = 0 THEN 0
              ELSE Leftmost({j \in (i0 + 1)..Len(text) : Contains(text[j], p.w2)})
        k0 == IF j0 = 0 THEN 0
              ELSE Leftmost({n \in (j0 + 1)..Len(text) : IsNumber(text[n])})
    IN  IF k0 = 0 THEN NoMatch ELSE float(text[k0])

\* re.search(pattern, content, re.IGNORECASE | re.DOTALL) and group(1)
Search(p, text) ==
    CASE p.kind = "exact" -> SearchExact(p, text)
      [] p.kind = "loose" -> SearchLoose(p, text)
      [] p.kind = "chain" -> SearchChain(p, text)

InRange_no_lower_bound(score) == score <= MaxScore

InRange_no_upper_bound(score) == MinScore <= score

\* if 1 <= score <= 10
InRange(score) == MinScore <= score /\ score <= MaxScore

\* the inner loop over pattern_list: first pattern whose match is in range
RECURSIVE FirstValid(_, _, _)
FirstValid(plist, n, text) ==
    IF n > Len(plist) THEN NoMatch
    ELSE LET score == Search(plist[n], text)
         IN  IF score # NoMatch /\ InRange(score) THEN score
             ELSE FirstValid(plist, n + 1, text)

\* the outer loop over patterns.items(): what the inner loop leaves for the
\* categories from the i-th on, in order
RECURSIVE Tried(_, _)
Tried(i, text) ==
    IF i > Len(Categories) THEN <<>>
    ELSE <<FirstValid(patterns(Categories[i]), 1, text)>> \o Tried(i + 1, text)

\* scores[category] = score for the categories whose loop ended in a break
Assigned(tried) ==
    [c \in {Categories[i] : i \in {j \in 1..Len(tried) : tried[j] # NoMatch}} |->
        tried[CHOOSE i \in 1..Len(tried) : Categories[i] = c]]

LabelledScores(text) == Assigned(Tried(1, text))

\* re.findall(r'\b(\d+(?:\.\d+)?)\b', content): "N/10" holds two numbers
RECURSIVE all_scores(_)
all_scores(text) ==
    IF text = <<>> THEN <<>>
    ELSE LET tok == Head(text)
             here == CASE tok.k = "num" -> <<float(tok)>>
                       [] tok.k = "num10" -> <<float(tok), 1000>>
                       [] OTHER -> <<>>
         IN  here \o all_scores(Tail(text))

valid_scores(text) == SelectSeq(all_scores(text), InRange)

FallbackScores_reversed(valid) ==
    LET filled == {i \in 1..MaxFallback : Len(valid) >= i}
    IN  [c \in {Categories[i] : i \in filled} |->
            valid[Cardinality(filled) + 1 - CHOOSE i \in filled : Categories[i] = c]]

\* the six "if len(valid_scores) >= i" assignments
FallbackScores(valid) ==
    LET filled == {i \in 1..MaxFallback : Len(valid) >= i}
    IN  [c \in {Categories[i] : i \in filled} |->
            valid[CHOOSE i \in filled : Categories[i] = c]]

extract_scores_fill_missing(text) ==
    LET labelled == LabelledScores(text)
        positional == FallbackScores(valid_scores(text))
    IN  [c \in DOMAIN labelled \cup DOMAIN positional |->
            IF c \in DOMAIN labelled THEN labelled[c] ELSE positional[c]]

\* "if not scores:" guards the positional fallback
extract_scores_from_text(text) ==
    LET labelled == LabelledScores(text)
    IN  IF DOMAIN labelled # {} THEN labelled
        ELSE FallbackScores(valid_scores(text))

(***************************************************************************)
(* Extraction over arbitrary short texts                                   *)
(***************************************************************************)
Words ==
    {Word(LabelWord(c)) : c \in CategorySet \ {"experience_match"}}
        \cup {Word("alignment"), Word("Experience")}

Numerals == {Num(0, 50), Num(7, 50), Num(10, 50), Num10(7, 0)}

Alphabet == {Lab(c) : c \in CategorySet} \cup Words \cup Numerals \cup {Dash, Txt}

\* no reply has been received and evaluate_response has not been called
NotEvaluated ==
    /\ response_text = <<>>
    /\ evaluation = [assessment |-> <<>>, follow_up_question |-> <<>>,
                     follow_up_expected |-> <<>>]
    /\ evaluated = FALSE

\* nothing has been typed and validate_user_input has not been called
NotValidated ==
    /\ user_input = <<>>
    /\ validation = <<>>
    /\ validated = FALSE

\* SessionManager._initialize_session_state: the defaults of a new session
SessionDefaults ==
    /\ now = 0
    /\ request_count = 0
    /\ last_request_time = 0
    /\ interview_history = <<>>
    /\ session_stats = [total_questions |-> 0, technical_score |-> 0,
                        communication_score |-> 0, role_specific_metrics |-> <<>>]
    /\ interview_started = FALSE
    /\ is_processing = FALSE
    /\ current_response = <<>>
    /\ shown = <<>>
    /\ evaluations = <<>>
    /\ returned = <<>>

\* analyze_response has not been called
NotAnalyzed ==
    /\ experience_level = ""
    /\ response = [kind |-> "none"]
    /\ analysis = [score |-> [k |-> "none", v |-> 0], complete |-> FALSE]
    /\ analyzed = FALSE

\* no decorated function has been called
NotInvoked ==
    /\ pc = "idle"
    /\ decoration = [wrapper |-> "none", max_retries |-> 0, delay |-> 0]
    /\ retries = 0
    /\ last_error = <<>>
    /\ calls = <<>>
    /\ sleeps = <<>>
    /\ outcome = [kind |-> "none", value |-> <<>>]

InitExtract ==
    /\ content = <<>>
    /\ scores = <<>>
    /\ extracted = FALSE
    /\ messages = <<>>
    /\ metrics = [domain_knowledge |-> 0, methodology_understanding |-> 0,
                  practical_experience |-> 0, overall_score |-> 0]
    /\ calculated = FALSE
    /\ NotEvaluated
    /\ NotInvoked
    /\ NotValidated
    /\ SessionDefaults
    /\ NotAnalyzed

AppendToken(tok) ==
    /\ ~extracted
    /\ Len(content) < MaxLen
    /\ content' = Append(content, tok)
    /\ UNCHANGED <<scores, extracted, metricsVars, evalVars, retryVars, validateVars, sessionVars, analyzeVars>>

Extract ==
    /\ ~extracted
    /\ scores' = extract_scores_from_text(content)
    /\ extracted' = TRUE
    /\ UNCHANGED <<content, metricsVars, evalVars, retryVars, validateVars, sessionVars, analyzeVars>>

NextExtract == (\E tok \in Alphabet : AppendToken(tok)) \/ Extract

SpecExtract == InitExtract /\ [][NextExtract]_vars

(***************************************************************************)
(* Extraction over longer texts that name a single category; a bullet is   *)
(* written only in front of a label, as in the format the prompt asks for  *)
(***************************************************************************)
\* ("Score" occurs in these texts within the label "Score:")
FocusWords(c) ==
    IF c = "experience_match"
    THEN {Word("alignment"), Word("Experience")}
    ELSE {Word(LabelWord(c))}

FocusNumerals == {Num(0, 50), Num(5, 0), Num10(7, 0)}

FocusAlphabet(c) == {Lab(c)} \cup FocusWords(c) \cup FocusNumerals \cup {Dash}

\* the category a label or keyword token belongs to
Owner(tok) ==
    IF tok.k = "lab" THEN tok.c
    ELSE IF tok.c \in {"alignment", "Experience", "Score"} THEN "experience_match"
    ELSE CHOOSE c \in CategorySet : LabelWord(c) = tok.c

AppendFocusToken(c) ==
    /\ ~extracted
    /\ Len(content) < MaxFocusLen
    /\ \A i \in 1..Len(content) : content[i].k \in {"lab", "word"} => Owner(content[i]) = c
    /\ \E tok \in FocusAlphabet(c) :
           /\ (content # <<>> /\ content[Len(content)].k = "dash") => tok.k = "lab"
           /\ content' = Append(content, tok)
    /\ UNCHANGED <<scores, extracted, metricsVars, evalVars, retryVars, validateVars, sessionVars, analyzeVars>>

NextFocus == (\E c \in CategorySet : AppendFocusToken(c)) \/ Extract

SpecFocus == InitExtract /\ [][NextFocus]_vars

(***************************************************************************)
(* calculate_role_specific_metrics                                         *)
(*                                                                         *)
(* Averages are exact rationals [n, d] in hundredths (n / d); round(x, 1)  *)
(* is round-half-to-even on the exact value.  The binary rounding error of *)
(* Python floats (about 1e-15) is not modelled; it can only matter when    *)
(* the exact value is a decimal tie (x.x5).                                *)
(***************************************************************************)
Rat(n, d) == [n |-> n, d |-> d]

\* the component lists of one assessment
technical_keys == {"knowledge_depth", "implementation", "best_practices"}
communication_keys == {"clarity", "structure", "professionalism"}
experience_keys == {"experience_match"}

RECURSIVE SumOver(_, _)
SumOver(f, S) ==
    IF S = {} THEN 0
    ELSE LET x == CHOOSE y \in S : TRUE
         IN  f[x] + SumOver(f, S \ {x})

ComponentMean_pooled(sc, keys) ==
    LET present == keys \cap DOMAIN sc
        n == Cardinality(present)
        order == CHOOSE f \in [1..n -> present] : \A a, b \in 1..n : a # b => f[a] # f[b]
    IN  [i \in 1..n |-> Rat(sc[order[i]], 1)]

\* sum(components) / len(components) for the keys of one group that are
\* present in scores; <<>> when the component list is empty (nothing appended)
ComponentMean(sc, keys) ==
    LET present == keys \cap DOMAIN sc
    IN  IF present = {} THEN <<>>
        ELSE <<Rat(SumOver(sc, present), Cardinality(present))>>

Lists(t, c, e) == [technical |-> t, communication |-> c, experience |-> e]

\* the body of "if scores:": what one assessment adds to the three lists
Collected(sc, rest) ==
    Lists(ComponentMean(sc, technical_keys) \o rest.technical,
          ComponentMean(sc, communication_keys) \o rest.communication,
          ComponentMean(sc, experience_keys) \o rest.experience)

RECURSIVE CollectScores_any_role(_)
CollectScores_any_role(msgs) ==
    IF msgs = <<>> THEN Lists(<<>>, <<>>, <<>>)
    ELSE LET message == Head(msgs)
             rest == CollectScores_any_role(Tail(msgs))
         IN  IF message.type = "assessment"
             THEN Collected(extract_scores_from_text(message.content), rest)
             ELSE rest

\* the "for message in messages" loop: the three lists it collects
RECURSIVE CollectScores(_)
CollectScores(msgs) ==
    IF msgs = <<>> THEN Lists(<<>>, <<>>, <<>>)
    ELSE LET message == Head(msgs)
             rest == CollectScores(Tail(msgs))
         IN  IF message.role = "assistant" /\ message.type = "assessment"
             THEN Collected(extract_scores_from_text(message.content), rest)
             ELSE rest

\* sum of rationals with denominators 1, 2, 3, in sixths
RECURSIVE SumSixths(_)
SumSixths(rs) ==
    IF rs = <<>> THEN 0
    ELSE (Head(rs).n * (6 \div Head(rs).d)) + SumSixths(Tail(rs))

FALLBACK_AVERAGE == 600

Average_fallback_zero(rs) ==
    IF rs = <<>> THEN Rat(0, 1) ELSE Rat(SumSixths(rs), 6 * Len(rs))

\* sum(xs) / len(xs) if xs else 6.0
Average(rs) ==
    IF rs = <<>> THEN Rat(FALLBACK_AVERAGE, 1) ELSE Rat(SumSixths(rs), 6 * Len(rs))

Weighted_swapped(dk, pe, mu) ==
    Rat(5 * dk.n * pe.d * mu.d + 2 * pe.n * dk.d * mu.d + 3 * mu.n * dk.d * pe.d,
        10 * dk.d * pe.d * mu.d)

\* domain_knowledge * 0.5 + practical_experience * 0.3 + methodology_understanding * 0.2
Weighted(dk, pe, mu) ==
    Rat(5 * dk.n * pe.d * mu.d + 3 * pe.n * dk.d * mu.d + 2 * mu.n * dk.d * pe.d,
        10 * dk.d * pe.d * mu.d)

\* round(x, 1): the value in hundredths, a multiple of 10
Round1(q) ==
    LET unit == 10 * q.d
        t == q.n \div unit
        r == q.n - t * unit
    IN  IF 2 * r < unit THEN 10 * t
        ELSE IF 2 * r > unit THEN 10 * (t + 1)
        ELSE IF t % 2 = 0 THEN 10 * t ELSE 10 * (t + 1)

Metrics(dk, mu, pe, ov) ==
    [domain_knowledge |-> dk, methodology_understanding |-> mu,
     practical_experience |-> pe, overall_score |-> ov]

ZeroMetrics == Metrics(0, 0, 0, 0)

RECURSIVE CountAssessments(_)
CountAssessments(msgs) ==
    IF msgs = <<>> THEN 0
    ELSE (IF Head(msgs).role = "assistant" /\ Head(msgs).type = "assessment" THEN 1 ELSE 0)
            + CountAssessments(Tail(msgs))

WeightedResult(technical_scores, communication_scores, experience_scores) ==
    LET domain_knowledge == Average(technical_scores)
        methodology_understanding == Average(communication_scores)
        practical_experience == Average(experience_scores)
        overall_score == Weighted(domain_knowledge, practical_experience,
                                  methodology_understanding)
    IN  Metrics(Round1(domain_knowledge), Round1(methodology_understanding),
                Round1(practical_experience), Round1(overall_score))

calculate_metrics_never_zero(role, experience, msgs) ==
    LET lists == CollectScores(msgs)
    IN  WeightedResult(lists.technical, lists.communication, lists.experience)

calculate_metrics_zero_on_count(role, experience, msgs) ==
    LET lists == CollectScores(msgs)
    IN  IF CountAssessments(msgs) = 0 THEN ZeroMetrics
        ELSE WeightedResult(lists.technical, lists.communication, lists.experience)

calculate_role_specific_metrics(role, experience, msgs) ==
    LET lists == CollectScores(msgs)
    IN  IF lists.technical = <<>> /\ lists.communication = <<>> /\ lists.experience = <<>>
        THEN ZeroMetrics
        ELSE WeightedResult(lists.technical, lists.communication, lists.experience)

(***************************************************************************)
(* Aggregation over bounded message histories                              *)
(***************************************************************************)
\* replies an assessment message may carry
ReplyFull ==
    <<Dash, Lab("knowledge_depth"), Num(7, 50), Dash, Lab("implementation"), Num(6, 0),
      Dash, Lab("best_practices"), Num(7, 0), Dash, Lab("clarity"), Num(8, 0),
      Dash, Lab("structure"), Num(7, 50), Dash, Lab("professionalism"), Num(8, 50),
      Word("Experience"), Txt, Dash, Lab("experience_match"), Num(7, 40), Txt>>
ReplyMixed ==
    <<Lab("knowledge_depth"), Num(7, 0), Lab("implementation"), Num(7, 0),
      Lab("best_practices"), Num(8, 0), Lab("clarity"), Num(6, 30),
      Lab("experience_match"), Num(7, 10)>>
ReplyNoScores == <<Txt, Txt>>
ReplyOutOfRange == <<Lab("clarity"), Num(11, 0), Txt, Num(0, 0)>>
ReplyTechnicalOnly == <<Lab("knowledge_depth"), Num(8, 0)>>
ReplyCommunicationOnly == <<Word("Clarity"), Txt, Num10(6, 0), Lab("structure"), Dash>>
ReplyExperienceOnly == <<Word("Experience"), Word("Score"), Txt, Num(7, 0)>>
ReplyUnlabelled == <<Txt, Num(8, 0), Txt, Num(6, 40)>>

AssessmentTexts ==
    {ReplyFull, ReplyMixed, ReplyNoScores, ReplyOutOfRange, ReplyTechnicalOnly,
     ReplyCommunicationOnly, ReplyExperienceOnly, ReplyUnlabelled}

Message(role, type, text) == [role |-> role, type |-> type, content |-> text]

MessageSet ==
    {Message("assistant", "assessment", t) : t \in AssessmentTexts}
        \cup {Message("user", "message", ReplyFull),
              Message("user", "assessment", ReplyTechnicalOnly),
              Message("assistant", "question", ReplyExperienceOnly)}

Roles == {"Software Engineer", "Data Scientist"}
Levels == {"0-2 years", "10+ years"}

InitMetrics ==
    /\ messages = <<>>
    /\ metrics = ZeroMetrics
    /\ calculated = FALSE
    /\ content = <<>>
    /\ scores = <<>>
    /\ extracted = FALSE
    /\ NotEvaluated
    /\ NotInvoked
    /\ NotValidated
    /\ SessionDefaults
    /\ NotAnalyzed

AddMessage(m) ==
    /\ ~calculated
    /\ Len(messages) < MaxMessages
    /\ messages' = Append(messages, m)
    /\ UNCHANGED <<metrics, calculated, extractVars, evalVars, retryVars, validateVars, sessionVars, analyzeVars>>

Calculate_consuming(role, experience) ==
    /\ ~calculated
    /\ metrics' = calculate_role_specific_metrics(role, experience, messages)
    /\ calculated' = TRUE
    /\ messages' = <<>>
    /\ UNCHANGED <<extractVars, evalVars, retryVars, validateVars, sessionVars, analyzeVars>>
Calculate(role, experience) ==
    /\ ~calculated
    /\ metrics' = calculate_role_specific_metrics(role, experience, messages)
    /\ calculated' = TRUE
    /\ UNCHANGED <<messages, extractVars, evalVars, retryVars, validateVars, sessionVars, analyzeVars>>

NextMetrics ==
    \/ \E m \in MessageSet : AddMessage(m)
    \/ \E role \in Roles : \E experience \in Levels : Calculate(role, experience)

SpecMetrics == InitMetrics /\ [][NextMetrics]_vars

(***************************************************************************)
(* AIService.evaluate_response: splitting the reply of the model.          *)
(* The reply is a sequence of pieces: the two markers, a piece of other    *)
(* text, a blank, and a marker written in lower case (str.split compares   *)
(* case-sensitively, so this one is ordinary text).                        *)
(***************************************************************************)
MaxReplyLen == 5

FollowUpMarker == "Follow-up Question:"
ExpectedMarker == "Expected Answer:"
NoFollowUp == <<"No follow-up provided.">>
NoModelAnswer == <<"No model answer for follow-up.">>
Whitespace == {" "}
ReplyPieces == {FollowUpMarker, ExpectedMarker, "follow-up question:", "text", " "}

\* index of the first occurrence of sep in s, 0 when there is none
find(s, sep) ==
    IF \E i \in 1..Len(s) : s[i] = sep
    THEN CHOOSE i \in 1..Len(s) : s[i] = sep /\ \A j \in 1..(i - 1) : s[j] # sep
    ELSE 0

split_at_last(s, sep) ==
    IF find(s, sep) = 0 THEN <<s>>
    ELSE LET i == CHOOSE i \in 1..Len(s) :
                      s[i] = sep /\ \A j \in (i + 1)..Len(s) : s[j] # sep
         IN  <<SubSeq(s, 1, i - 1), SubSeq(s, i + 1, Len(s))>>
\* s.split(sep, 1): one element when sep is absent, else the text before
\* and the text after its first occurrence
split(s, sep) ==
    IF find(s, sep) = 0 THEN <<s>>
    ELSE <<SubSeq(s, 1, find(s, sep) - 1), SubSeq(s, find(s, sep) + 1, Len(s))>>

RECURSIVE lstrip(_)
lstrip(s) ==
    IF s # <<>> /\ Head(s) \in Whitespace THEN lstrip(Tail(s)) ELSE s

RECURSIVE rstrip(_)
rstrip(s) ==
    IF s # <<>> /\ s[Len(s)] \in Whitespace THEN rstrip(SubSeq(s, 1, Len(s) - 1)) ELSE s

strip(s) == rstrip(lstrip(s))

\* the second split and the dictionary, from the part after the first marker
FollowUp(assessment_part, follow_up_parts) ==
    [assessment |-> assessment_part,
     follow_up_question |-> strip(follow_up_parts[1]),
     follow_up_expected |-> IF Len(follow_up_parts) > 1
                            THEN strip(follow_up_parts[2])
                            ELSE NoModelAnswer]

\* the first split
Parsed(parts) ==
    FollowUp(strip(parts[1]),
             split(IF Len(parts) > 1 THEN parts[2] ELSE NoFollowUp, ExpectedMarker))

evaluate_response(text) == Parsed(split(text, FollowUpMarker))

InitEval ==
    /\ response_text = <<>>
    /\ evaluation = [assessment |-> <<>>, follow_up_question |-> <<>>,
                     follow_up_expected |-> <<>>]
    /\ evaluated = FALSE
    /\ content = <<>>
    /\ scores = <<>>
    /\ extracted = FALSE
    /\ messages = <<>>
    /\ metrics = ZeroMetrics
    /\ calculated = FALSE
    /\ NotInvoked
    /\ NotValidated
    /\ SessionDefaults
    /\ NotAnalyzed

\* the model streams one more piece of its reply
Reply(piece) ==
    /\ ~evaluated
    /\ Len(response_text) < MaxReplyLen
    /\ response_text' = Append(response_text, piece)
    /\ UNCHANGED <<evaluation, evaluated, extractVars, metricsVars, retryVars, validateVars, sessionVars, analyzeVars>>

\* generate_content returns only a non-empty text
Evaluate ==
    /\ ~evaluated
    /\ response_text # <<>>
    /\ evaluation' = evaluate_response(response_text)
    /\ evaluated' = TRUE
    /\ UNCHANGED <<response_text, extractVars, metricsVars, retryVars, validateVars, sessionVars, analyzeVars>>

NextEval == (\E piece \in ReplyPieces : Reply(piece)) \/ Evaluate

SpecEval == InitEval /\ [][NextEval]_vars

(***************************************************************************)
(* retry_on_error: the retry wrapper around the call to the model, in its  *)
(* two copies (src/services/ai_service.py and app.py).                     *)
(* The message of an exception raised by the wrapped function is a         *)
(* sequence of characters; the two messages the wrapper makes up itself    *)
(* are kept in one piece.                                                  *)
(***************************************************************************)
UpperCase == <<"A", "B", "C", "D", "E", "F", "G", "H", "I", "J", "K", "L", "M",
               "N", "O", "P", "Q", "R", "S", "T", "U", "V", "W", "X", "Y", "Z">>
LowerCase == <<"a", "b", "c", "d", "e", "f", "g", "h", "i", "j", "k", "l", "m",
               "n", "o", "p", "q", "r", "s", "t", "u", "v", "w", "x", "y", "z">>

\* str.lower()
lower(s) ==
    [i \in 1..Len(s) |->
        IF \E k \in 1..Len(UpperCase) : UpperCase[k] = s[i]
        THEN LowerCase[CHOOSE k \in 1..Len(UpperCase) : UpperCase[k] = s[i]]
        ELSE s[i]]

\* needle in s
In(needle, s) ==
    \E i \in 1..(Len(s) - Len(needle) + 1) : SubSeq(s, i, i + Len(needle) - 1) = needle

quota == <<"q", "u", "o", "t", "a">>
invalid == <<"i", "n", "v", "a", "l", "i", "d">>

\* error_str = str(e).lower()
error_str_as_raised(e) == e
error_str(e) == lower(e)

QuotaExceeded == <<"API quota exceeded. Please try again later.">>
InvalidKey == <<"Invalid API key. Please check your configuration.">>

\* what the handler raises for an error of the two special kinds: the copy
\* in ai_service.py makes a new exception, the copy in app.py re-raises
Reraised(wrapper, e, message) == IF wrapper = "ai_service" THEN message ELSE e

Decorations_four_attempts ==
    {[wrapper |-> "ai_service", max_retries |-> 4, delay |-> 2],
     [wrapper |-> "app", max_retries |-> 4, delay |-> 2]}
\* the decorated functions: AIService.generate_content and get_ai_response
Decorations ==
    {[wrapper |-> "ai_service", max_retries |-> 3, delay |-> 2],
     [wrapper |-> "app", max_retries |-> 3, delay |-> 2]}

\* what one invocation of the wrapped function can do
Failures ==
    {<<"Q", "u", "o", "t", "a">>,
     <<"4", "2", "9", " ", "q", "u", "o", "t", "a">>,
     <<"I", "N", "V", "A", "L", "I", "D">>,
     <<"k", "e", "y", "_", "i", "n", "v", "a", "l", "i", "d">>,
     <<"n", "o", "t", " ", "v", "a", "l", "i", "d">>,
     <<"q", "u", "o", "t", " ", "a">>,
     <<"E", "m", "p", "t", "y">>,
     <<"5", "0", "3">>}
Response == <<"r", "e", "s", "p", "o", "n", "s", "e">>
Returned(value) == [ok |-> TRUE, value |-> value]
Raised(e) == [ok |-> FALSE, value |-> e]
Attempts == {Returned(Response)} \cup {Raised(e) : e \in Failures}

RECURSIVE Pow2(_)
Pow2(n) == IF n = 0 THEN 1 ELSE 2 * Pow2(n - 1)

Backoff_constant(delay, n) == delay
\* delay * (2 ** (retries - 1))
Backoff(delay, n) == delay * Pow2(n - 1)

None == <<>>

InitRetry ==
    /\ NotInvoked
    /\ NotValidated
    /\ SessionDefaults
    /\ NotAnalyzed
    /\ NotEvaluated
    /\ content = <<>>
    /\ scores = <<>>
    /\ extracted = FALSE
    /\ messages = <<>>
    /\ metrics = ZeroMetrics
    /\ calculated = FALSE

\* a call of the decorated function d enters the wrapper
Invoke(d) ==
    /\ pc = "idle"
    /\ pc' = "running"
    /\ decoration' = d
    /\ retries' = 0
    /\ last_error' = None
    /\ UNCHANGED <<calls, sleeps, outcome, extractVars, metricsVars, evalVars, validateVars, sessionVars, analyzeVars>>

\* the "except Exception as e" block for the error e of this attempt
Except(e) ==
    /\ last_error' = e
    /\ IF In(quota, error_str(e))
       THEN /\ pc' = "raised"
            /\ outcome' = [kind |-> "raise",
                           value |-> Reraised(decoration.wrapper, e, QuotaExceeded)]
            /\ UNCHANGED retries
       ELSE IF In(invalid, error_str(e))
       THEN /\ pc' = "raised"
            /\ outcome' = [kind |-> "raise",
                           value |-> Reraised(decoration.wrapper, e, InvalidKey)]
            /\ UNCHANGED retries
       ELSE /\ retries' = retries + 1
            /\ IF retries + 1 = decoration.max_retries
               THEN /\ pc' = "raised"
                    /\ outcome' = [kind |-> "raise", value |-> e]
               ELSE /\ pc' = "running"
                    /\ UNCHANGED outcome

\* one turn of "while retries < max_retries": the test, the sleep, the
\* invocation of the wrapped function and the handling of what it did
Iterate(attempt) ==
    /\ pc = "running"
    /\ IF retries < decoration.max_retries
       THEN /\ sleeps' = IF retries > 0
                         THEN Append(sleeps, Backoff(decoration.delay, retries))
                         ELSE sleeps
            /\ calls' = Append(calls, attempt)
            /\ IF attempt.ok
               THEN /\ pc' = "returned"
                    /\ outcome' = [kind |-> "return", value |-> attempt.value]
                    /\ UNCHANGED <<retries, last_error>>
               ELSE Except(attempt.value)
       ELSE /\ pc' = "returned"
            /\ outcome' = [kind |-> "return", value |-> None]
            /\ UNCHANGED <<retries, last_error, calls, sleeps>>
    /\ UNCHANGED <<decoration, extractVars, metricsVars, evalVars, validateVars, sessionVars, analyzeVars>>

NextRetry ==
    \/ \E d \in Decorations : Invoke(d)
    \/ \E attempt \in Attempts : Iterate(attempt)

SpecRetry == InitRetry /\ [][NextRetry]_vars

(***************************************************************************)
(* SessionManager.validate_user_input.  The candidate's answer is a        *)
(* sequence of characters, each a blank or a letter.                       *)
(***************************************************************************)
MaxInputLen == 11
MIN_LENGTH == 10

Characters == {" ", "a"}

\* ERROR_MESSAGES['invalid_input']
InvalidInput == <<"Your response is too short. Please provide a more detailed answer.">>

validate_user_input_unstripped(input) ==
    IF input = <<>> THEN <<FALSE, InvalidInput>>
    ELSE IF Len(input) < MIN_LENGTH THEN <<FALSE, InvalidInput>>
    ELSE <<TRUE, None>>
\* "if not user_input", then "if len(user_input.strip()) < 10"
validate_user_input(input) ==
    IF input = <<>> THEN <<FALSE, InvalidInput>>
    ELSE IF Len(strip(input)) < MIN_LENGTH THEN <<FALSE, InvalidInput>>
    ELSE <<TRUE, None>>

InitValidate ==
    /\ NotValidated
    /\ SessionDefaults
    /\ NotAnalyzed
    /\ NotInvoked
    /\ NotEvaluated
    /\ content = <<>>
    /\ scores = <<>>
    /\ extracted = FALSE
    /\ messages = <<>>
    /\ metrics = ZeroMetrics
    /\ calculated = FALSE

\* the candidate types one more character
Type(ch) ==
    /\ ~validated
    /\ Len(user_input) < MaxInputLen
    /\ user_input' = Append(user_input, ch)
    /\ UNCHANGED <<validation, validated, extractVars, metricsVars, evalVars,
                   retryVars, sessionVars, analyzeVars>>

Validate ==
    /\ ~validated
    /\ validation' = validate_user_input(user_input)
    /\ validated' = TRUE
    /\ UNCHANGED <<user_input, extractVars, metricsVars, evalVars, retryVars,
                   sessionVars, analyzeVars>>

NextValidate == (\E ch \in Characters : Type(ch)) \/ Validate

SpecValidate == InitValidate /\ [][NextValidate]_vars

(***************************************************************************)
(* The session and InterviewController.  The session state the controller  *)
(* works on is gathered in a record; each method is a function from the    *)
(* record before the call to the record after it.  Time is counted in half *)
(* seconds.                                                                *)
(***************************************************************************)
MaxTime == 4
MaxCalls == 3
ONE_SECOND == 2

Session ==
    [messages |-> messages, request_count |-> request_count,
     last_request_time |-> last_request_time,
     interview_history |-> interview_history, session_stats |-> session_stats,
     interview_started |-> interview_started, is_processing |-> is_processing, current_response |-> current_response,
     shown |-> shown, evaluations |-> evaluations]

\* st.warning(text) and st.error(text)
st_warning(st, text) ==
    [st EXCEPT !.shown = Append(@, [level |-> "warning", text |-> text])]
st_error(st, text) ==
    [st EXCEPT !.shown = Append(@, [level |-> "error", text |-> text])]

Granted_after_any_time(st, t) == t - st.last_request_time > 0

\* SessionManager.check_rate_limit at time t: whether the request is granted
Granted(st, t) == t - st.last_request_time >= ONE_SECOND
check_rate_limit(st, t) ==
    IF Granted(st, t)
    THEN [st EXCEPT !.last_request_time = t, !.request_count = @ + 1]
    ELSE st

set_processing_state(st, flag, current) ==
    [st EXCEPT !.is_processing = flag, !.current_response = current]

add_message(st, role, text, type) ==
    [st EXCEPT !.messages = Append(@, Message(role, type, text))]

add_interview_history(st, t, role, experience, interview_type, question, answer, feedback) ==
    [st EXCEPT !.interview_history =
        Append(@, [timestamp |-> t, role |-> role, experience |-> experience,
                   interview_type |-> interview_type, question |-> question,
                   answer |-> answer, feedback |-> feedback])]

update_session_stats(st, role_metrics) ==
    [st EXCEPT !.session_stats.total_questions = @ + 1,
               !.session_stats.role_specific_metrics = role_metrics]

UnknownQuestion == [question |-> <<"Unknown Question">>, expected_answer |-> <<>>]

\* SessionManager.get_last_question: the content of the latest question
RECURSIVE get_last_question(_)
get_last_question(msgs) ==
    IF msgs = <<>> THEN UnknownQuestion
    ELSE IF msgs[Len(msgs)].role = "assistant" /\ msgs[Len(msgs)].type = "question"
    THEN msgs[Len(msgs)].content
    ELSE get_last_question(SubSeq(msgs, 1, Len(msgs) - 1))

should_process_input(st, input) ==
    /\ input # <<>>
    /\ input # st.current_response
    /\ ~st.is_processing

\* the pair check_rate_limit returns: the grant and the remaining wait
RateLimit(st, t) ==
    IF Granted(st, t) THEN <<TRUE, 0>>
    ELSE <<FALSE, ONE_SECOND - (t - st.last_request_time)>>

NoStats ==
    [total_questions |-> 0, technical_score |-> 0, communication_score |-> 0,
     role_specific_metrics |-> <<>>]

reset_interview_keeping_stats(st) ==
    [st EXCEPT !.messages = <<>>, !.interview_started = FALSE,
               !.is_processing = FALSE, !.current_response = <<>>]

reset_interview(st) ==
    [st EXCEPT !.messages = <<>>, !.session_stats = NoStats,
               !.interview_started = FALSE, !.is_processing = FALSE,
               !.current_response = <<>>]

\* SessionManager.start_interview
mark_started(st) == [st EXCEPT !.interview_started = TRUE]

\* SessionManager.export_history at time t: the document json.dumps writes
export_history(st, t) ==
    [timestamp |-> t, history |-> st.interview_history, stats |-> st.session_stats]

\* the attributes of an InterviewAnalyzer object: the methods of the class
InterviewAnalyzerMethods == {"__init__", "analyze_response"}

AttributeError == <<"'InterviewAnalyzer' object has no attribute 'validate_input'">>

\* what a validate_input method would answer, after the specification: an
\* answer that is empty or has fewer than 10 non-blank characters is refused
validate_input(input) ==
    IF Cardinality({i \in 1..Len(input) : input[i] \notin Whitespace}) < MIN_LENGTH
    THEN <<FALSE, InvalidInput>>
    ELSE <<TRUE, None>>

\* what the call of AIService.evaluate_response in the handler can do: return
\* the three parts of a reply, or raise what generate_content raised
Evaluations ==
    {[ok |-> TRUE, assessment |-> t, follow_up_question |-> <<"text">>,
      follow_up_expected |-> <<"text">>] : t \in {ReplyFull, ReplyNoScores}}
        \cup {[ok |-> FALSE, error |-> e] : e \in {QuotaExceeded, <<"5", "0", "3">>}}

InterviewTypes == {"Technical"}

\* the role and the experience of the candidates interviewed
Candidates == {<<"Software Engineer", "0-2 years">>, <<"Data Scientist", "10+ years">>}

\* lines 115-127: the scores stored when the computed ones are all zero
FallbackBase(question_count) ==
    IF 600 + 50 * question_count < 850 THEN 600 + 50 * question_count ELSE 850
FallbackMetrics(base) == Metrics(base, base - 20, base - 10, base)
WithFallback(st, role_metrics) ==
    IF \A k \in DOMAIN role_metrics : role_metrics[k] = 0
    THEN FallbackMetrics(FallbackBase(st.session_stats.total_questions + 1))
    ELSE role_metrics

\* "except Exception as e": the error box; "finally": the processing state
Unexpected(st, e) ==
    st_error(st, <<"An unexpected error occurred while processing your response: ">> \o e)
Finally_skipped(st) == st
Finally(st) == set_processing_state(st, FALSE, <<>>)
Exit(result, st) == [result |-> result, st |-> Finally(st)]

\* lines 110-132, with the three messages and the history entry in place
Scored(st, role, experience) ==
    Exit(TRUE, update_session_stats(st,
        WithFallback(st, calculate_role_specific_metrics(role, experience, st.messages))))

\* lines 85-108, for the evaluation data the model call returned
Assessed(st, t, input, question, role, experience, interview_type, data) ==
    Scored(add_interview_history(
               add_message(add_message(st, "assistant", data.assessment, "assessment"),
                           "assistant",
                           [question |-> data.follow_up_question,
                            expected_answer |-> data.follow_up_expected],
                           "question"),
               t, role, experience, interview_type, question, input, data.assessment),
           role, experience)

\* lines 75-83: the call of evaluate_response, which returns or raises
Called(st, llm) == [st EXCEPT !.evaluations = Append(@, llm)]
Evaluated(st, t, input, role, experience, interview_type, llm) ==
    IF llm.ok
    THEN Assessed(Called(st, llm), t, input, get_last_question(st.messages).question,
                  role, experience, interview_type, llm)
    ELSE Exit(FALSE, Unexpected(Called(st, llm), llm.error))

\* lines 63-73: the rate limit, the processing state and the user message
Admitted(st, t, input, role, experience, interview_type, llm) ==
    IF ~Granted(st, t)
    THEN Exit(FALSE, st_warning(st, <<"Please wait before submitting another response.">>))
    ELSE Evaluated(add_message(set_processing_state(check_rate_limit(st, t), TRUE, input),
                               "user", input, "message"),
                   t, input, role, experience, interview_type, llm)

\* InterviewController.process_user_response; the attribute lookup of line
\* 58 raises AttributeError when the analyzer has no validate_input
process_user_response(st, t, input, role, experience, interview_type, llm) ==
    IF "validate_input" \notin InterviewAnalyzerMethods
    THEN Exit(FALSE, Unexpected(st, AttributeError))
    ELSE IF ~validate_input(input)[1]
    THEN Exit(FALSE, st_warning(st, validate_input(input)[2]))
    ELSE Admitted(st, t, input, role, experience, interview_type, llm)

\* what the call of AIService.generate_interview_question can do: return the
\* question data, or raise what generate_content raised
Questions ==
    {[ok |-> TRUE, value |-> [question |-> <<"text">>, expected_answer |-> <<"text">>]]}
        \cup {[ok |-> FALSE, error |-> e] : e \in {QuotaExceeded, <<"5", "0", "3">>}}

start_interview_marking_first(st, generated) ==
    IF generated.ok
    THEN [result |-> None,
          st |-> mark_started(add_message(st, "assistant", generated.value, "question"))]
    ELSE [result |-> None,
          st |-> st_error(mark_started(st),
                          <<"Failed to start interview: ">> \o generated.error)]

start_interview_as_assessment(st, generated) ==
    IF generated.ok
    THEN [result |-> None,
          st |-> mark_started(add_message(st, "assistant", generated.value, "assessment"))]
    ELSE [result |-> None,
          st |-> st_error(st, <<"Failed to start interview: ">> \o generated.error)]

\* InterviewController.start_interview, which returns nothing
start_interview(st, generated) ==
    IF generated.ok
    THEN [result |-> None,
          st |-> mark_started(add_message(st, "assistant", generated.value, "question"))]
    ELSE [result |-> None,
          st |-> st_error(st, <<"Failed to start interview: ">> \o generated.error)]

\* InterviewController.handle_user_input
handle_user_input(st, t, input, role, experience, interview_type, llm) ==
    IF ~should_process_input(st, input)
    THEN [result |-> FALSE, st |-> st]
    ELSE process_user_response(st, t, input, role, experience, interview_type, llm)

InitSession ==
    /\ SessionDefaults
    /\ NotAnalyzed
    /\ NotValidated
    /\ NotInvoked
    /\ NotEvaluated
    /\ content = <<>>
    /\ scores = <<>>
    /\ extracted = FALSE
    /\ messages = <<>>
    /\ metrics = ZeroMetrics
    /\ calculated = FALSE

\* half a second passes
Tick ==
    /\ now < MaxTime
    /\ now' = now + 1
    /\ UNCHANGED <<request_count, last_request_time, interview_history,
                   session_stats, interview_started, is_processing,
                   current_response, shown, evaluations, returned, messages,
                   metrics, calculated, extractVars, evalVars, retryVars,
                   validateVars, analyzeVars>>

\* the answers a candidate submits: nothing, a short word, eleven characters
\* of which six are letters, ten letters, and ten letters between blanks
Answers ==
    {<<>>,
     <<"a", "a", "a", "a", "a">>,
     <<"a", " ", "a", " ", "a", " ", "a", " ", "a", " ", "a">>,
     <<"a", "a", "a", "a", "a", "a", "a", "a", "a", "a">>,
     <<" ", "a", "a", "a", "a", "a", "a", "a", "a", "a", "a", " ">>}

\* st.session_state becomes st
Becomes(st) ==
    /\ messages' = st.messages
    /\ request_count' = st.request_count
    /\ last_request_time' = st.last_request_time
    /\ interview_history' = st.interview_history
    /\ session_stats' = st.session_stats
    /\ interview_started' = st.interview_started
    /\ is_processing' = st.is_processing
    /\ current_response' = st.current_response
    /\ shown' = st.shown
    /\ evaluations' = st.evaluations
    /\ UNCHANGED <<now, metrics, calculated, validateVars,
                   extractVars, evalVars, retryVars, analyzeVars>>

\* an answer of ten letters
Answer == <<"a", "a", "a", "a", "a", "a", "a", "a", "a", "a">>

\* the calls made so far, by name
Names(calls_made) == [i \in 1..Len(calls_made) |-> [call |-> calls_made[i].call]]

\* the session after a call that ended in "after"; the record of the call
\* follows the names of the calls made before it
Return(call, input, llm, after) ==
    /\ Becomes(after.st)
    /\ returned' = Append(Names(returned),
                          [call |-> call, input |-> input, llm |-> llm,
                           result |-> after.result])

\* a call of process_user_response
ProcessUserResponse(input, role, experience, interview_type, llm) ==
    /\ Len(returned) < MaxCalls
    /\ Return("process_user_response", input, llm,
              process_user_response(Session, now, input, role, experience,
                                    interview_type, llm))

\* a call of handle_user_input
HandleUserInput(input, role, experience, interview_type, llm) ==
    /\ Len(returned) < MaxCalls
    /\ Return("handle_user_input", input, llm,
              handle_user_input(Session, now, input, role, experience,
                                interview_type, llm))

\* a call of start_interview
StartInterview(generated) ==
    /\ Len(returned) < MaxCalls
    /\ Return("start_interview", <<>>, generated, start_interview(Session, generated))

\* a call of SessionManager.reset_interview
ResetInterview ==
    /\ Len(returned) < MaxCalls
    /\ Return("reset_interview", <<>>, None,
              [result |-> None, st |-> reset_interview(Session)])

\* a call of SessionManager.set_processing_state(True, answer)
SetProcessingState ==
    /\ Len(returned) < MaxCalls
    /\ ~is_processing
    /\ Return("set_processing_state", <<>>, None,
              [result |-> None, st |-> set_processing_state(Session, TRUE, Answer)])

NextSession ==
    \/ Tick
    \/ SetProcessingState
    \/ \E generated \in Questions : StartInterview(generated)
    \/ ResetInterview
    \/ \E input \in Answers : \E candidate \in Candidates :
       \E interview_type \in InterviewTypes : \E llm \in Evaluations :
           ProcessUserResponse(input, candidate[1], candidate[2], interview_type, llm)
    \/ \E input \in Answers : \E candidate \in Candidates :
       \E interview_type \in InterviewTypes : \E llm \in Evaluations :
           HandleUserInput(input, candidate[1], candidate[2], interview_type, llm)

SpecSession == InitSession /\ [][NextSession]_vars

(***************************************************************************)
(* The operations of SessionManager called one by one.  The calls a        *)
(* property reads the outcome of are recorded in "returned"; each of the    *)
(* other operations is made as long as the record it extends is empty.     *)
(***************************************************************************)
CheckRateLimit ==
    /\ Len(returned) < MaxCalls
    /\ Return("check_rate_limit", <<>>, None,
              [result |-> RateLimit(Session, now), st |-> check_rate_limit(Session, now)])

AddUserMessage ==
    /\ messages = <<>>
    /\ Becomes(add_message(Session, "user", Answer, "message"))
    /\ UNCHANGED returned

AddInterviewHistory ==
    /\ interview_history = <<>>
    /\ Becomes(add_interview_history(Session, now, "Software Engineer", "0-2 years",
                                     "Technical", <<"text">>, Answer, ReplyFull))
    /\ UNCHANGED returned

UpdateSessionStats ==
    /\ session_stats.total_questions = 0
    /\ Becomes(update_session_stats(Session, FallbackMetrics(FallbackBase(1))))
    /\ UNCHANGED returned

MarkStarted ==
    /\ ~interview_started
    /\ Becomes(mark_started(Session))
    /\ UNCHANGED returned

NextManager ==
    \/ Tick
    \/ CheckRateLimit
    \/ ResetInterview
    \/ AddUserMessage
    \/ AddInterviewHistory
    \/ UpdateSessionStats
    \/ MarkStarted
    \/ SetProcessingState

SpecManager == InitSession /\ [][NextManager]_vars

(***************************************************************************)
(* InterviewAnalyzer.analyze_response.  A number of the reply is a float:  *)
(* a finite value, nan, inf or -inf (json.loads reads the literals NaN,    *)
(* Infinity and -Infinity), kept as a record [k, v]; a field can also hold *)
(* something that is not a number.  Finite values are exact: the scores of *)
(* the reply in units, the weighted sums in smaller decimal units, the     *)
(* returned score in hundredths.                                           *)
(***************************************************************************)
Fin(v) == [k |-> "fin", v |-> v]
NaN == [k |-> "nan", v |-> 0]
Infinity == [k |-> "inf", v |-> 1]
NegInfinity == [k |-> "inf", v |-> -1]
NotANumber == [k |-> "str", v |-> 0]

\* x * m for a positive factor m
Times(x, m) == IF x.k = "fin" THEN Fin(x.v * m) ELSE x

\* x + y
Plus(x, y) ==
    IF x.k = "nan" \/ y.k = "nan" THEN NaN
    ELSE IF x.k = "inf" /\ y.k = "inf" THEN (IF x.v = y.v THEN x ELSE NaN)
    ELSE IF x.k = "inf" THEN x
    ELSE IF y.k = "inf" THEN y
    ELSE Fin(x.v + y.v)

\* x < y: false whenever one of them is nan
Less(x, y) ==
    /\ x.k # "nan"
    /\ y.k # "nan"
    /\ IF x.k = "inf" THEN x.v = -1 /\ y # x
       ELSE IF y.k = "inf" THEN y.v = 1
       ELSE x.v < y.v

\* min(x, y) and max(x, y): the first argument unless the second beats it
min(x, y) == IF Less(y, x) THEN y ELSE x
max(x, y) == IF Less(x, y) THEN y ELSE x

\* exp_expectations: base_score in hundredths, threshold in hundredths
exp_expectations(level) ==
    CASE level = "2-5 years" -> [base_score |-> 700, threshold |-> 75]
      [] level = "5-8 years" -> [base_score |-> 800, threshold |-> 80]
      [] level = "8+ years" -> [base_score |-> 850, threshold |-> 85]
      [] OTHER -> [base_score |-> 600, threshold |-> 70]

\* the failure score, base_score - 2.0, and the upper bound base_score + 1.5
Floor(exp_expect) == exp_expect.base_score - 200
Ceiling(exp_expect) == exp_expect.base_score + 150

\* a * 0.4 + b * 0.3 + c * 0.3, in tenths of a unit
Weighted433(a, b, c) == Plus(Plus(Times(a, 4), Times(b, 3)), Times(c, 3))

\* lines 201-205: the content score in thousandths, from the one in tenths
Thresholded(content_score, exp_expect) ==
    IF Less(content_score, Fin(exp_expect.base_score \div 10))
    THEN max(Times(content_score, exp_expect.threshold), Fin(10 * Floor(exp_expect)))
    ELSE Times(content_score, 100)

\* lines 221-225, in millionths: (content * 0.5 + tech * 0.3 + exp * 0.2) * threshold
Final(content_score, tech_score, exp_alignment_score, exp_expect) ==
    Times(Plus(Plus(Times(content_score, 5), Times(tech_score, 300)),
               Times(exp_alignment_score, 2000)),
          exp_expect.threshold)

\* lines 228-229, in millionths
Bounded(final_score, exp_expect) ==
    max(min(final_score, Fin(10000 * Ceiling(exp_expect))),
        Fin(10000 * Floor(exp_expect)))

\* round(final_score, 1), in hundredths.  The value rounded is the exact
\* decimal one; where it lies exactly half way between two tenths the float
\* of the code may fall on the other tenth.
Rounded(final_score) ==
    IF final_score.k = "fin" THEN Fin(Round1(Rat(final_score.v, 10000))) ELSE final_score

\* the experience levels of exp_expectations, and one it does not know
ExperienceLevels == {"0-2 years", "2-5 years", "5-8 years", "8+ years", "entry"}

\* what a reply can hold where a score is expected
Values == {Fin(1), Fin(10), Fin(100), NaN, Infinity, NegInfinity, NotANumber}
Ratings == {Fin(1), Fin(10)}

\* the outcomes of generate_content: it raises, its text is not JSON, or its
\* text is a JSON object with the seven scores read by lines 194-218
Feedback(r, c, s, k, p, ps, a) ==
    [kind |-> "json", relevance_score |-> r, clarity_score |-> c,
     structure_score |-> s, knowledge_depth |-> k,
     practical_understanding |-> p, problem_solving |-> ps, alignment_score |-> a]

Responses ==
    {[kind |-> "raises"], [kind |-> "text"]} \cup
    {Feedback(r, c, s, k, p, ps, a) :
        r \in Values, c \in Ratings, s \in Ratings, k \in Values,
        p \in Ratings, ps \in Ratings, a \in Values}

\* the try block raises: generate_content or json.loads does, or a score that
\* is not a number is multiplied by a float
Raises(reply) ==
    \/ reply.kind # "json"
    \/ \E f \in DOMAIN reply \ {"kind"} : reply[f] = NotANumber

\* lines 194-232 for a reply of numbers: the score in hundredths
Score(ai_feedback, exp_expect) ==
    Rounded(Bounded(
        Final(Thresholded(Weighted433(ai_feedback.relevance_score,
                                      ai_feedback.clarity_score,
                                      ai_feedback.structure_score), exp_expect),
              Weighted433(ai_feedback.knowledge_depth,
                          ai_feedback.practical_understanding,
                          ai_feedback.problem_solving),
              ai_feedback.alignment_score, exp_expect),
        exp_expect))

\* analyze_response(job_role, question, answer, experience_level) with the
\* reply the model gives: the score returned, and whether the analysis is the
\* reply's (lines 231-238) or the one of the except branch (lines 244-269)
analyze_response(level, reply) ==
    LET exp_expect == exp_expectations(level)
    IN  IF Raises(reply)
        THEN [score |-> Fin(Floor(exp_expect)), complete |-> FALSE]
        ELSE [score |-> Score(reply, exp_expect), complete |-> TRUE]

InitAnalyze ==
    /\ experience_level \in ExperienceLevels
    /\ response \in Responses
    /\ analysis = [score |-> [k |-> "none", v |-> 0], complete |-> FALSE]
    /\ analyzed = FALSE
    /\ NotValidated
    /\ SessionDefaults
    /\ NotInvoked
    /\ NotEvaluated
    /\ content = <<>>
    /\ scores = <<>>
    /\ extracted = FALSE
    /\ messages = <<>>
    /\ metrics = ZeroMetrics
    /\ calculated = FALSE

AnalyzeResponse ==
    /\ ~analyzed
    /\ analysis' = analyze_response(experience_level, response)
    /\ analyzed' = TRUE
    /\ UNCHANGED <<experience_level, response>>
    /\ UNCHANGED <<extractVars, metricsVars, evalVars, retryVars, validateVars, sessionVars>>

NextAnalyze == AnalyzeResponse

SpecAnalyze == InitAnalyze /\ [][NextAnalyze]_vars

(***************************************************************************)
(* Properties of extract_scores_from_text                                  *)
(***************************************************************************)
ScoreWithinBounds(v) == v >= 100 /\ v <= 1000

\* the number captured by the first pattern of c, in priority order, whose
\* match lies in [1,10]; NoMatch when there is none
Yield(c, text) ==
    LET s1 == Search(patterns(c)[1], text)
        s2 == Search(patterns(c)[2], text)
        s3 == Search(patterns(c)[3], text)
    IN  IF s1 # NoMatch /\ ScoreWithinBounds(s1) THEN s1
        ELSE IF s2 # NoMatch /\ ScoreWithinBounds(s2) THEN s2
        ELSE IF s3 # NoMatch /\ ScoreWithinBounds(s3) THEN s3
        ELSE NoMatch

NoLabelFound(text) == \A c \in CategorySet : Yield(c, text) = NoMatch

ValuesInRange == \A c \in DOMAIN scores : ScoreWithinBounds(scores[c])

FallThrough ==
    \A c \in CategorySet :
        LET y == Yield(c, content)
        IN  y # NoMatch => c \in DOMAIN scores /\ scores[c] = y

\* C1 as stated: every value of the result lies in [1,10]; an out-of-range
\* labelled match is discarded and the next pattern tried; a key for which no
\* pattern yields an in-range number is absent from the result.
C1_AsStated ==
    extracted =>
        /\ ValuesInRange
        /\ FallThrough
        /\ \A c \in CategorySet : Yield(c, content) = NoMatch => c \notin DOMAIN scores

\* C1 amended: every value of the result lies in [1,10]; an out-of-range
\* labelled match is discarded and the next pattern tried; a key for which no
\* pattern yields an in-range number is absent from the result whenever some
\* sub-score was found by a labelled pattern (otherwise the positional
\* fallback may fill it).
C1_RangeAndFallThrough ==
    extracted =>
        /\ ValuesInRange
        /\ FallThrough
        /\ ~NoLabelFound(content) =>
              \A c \in CategorySet : Yield(c, content) = NoMatch => c \notin DOMAIN scores

\* a first pattern captured an out-of-range number and a later pattern of the
\* same category an in-range one, which is the value returned
C1_Witness ==
    /\ extracted
    /\ \E c \in CategorySet :
          /\ Search(patterns(c)[1], content) # NoMatch
          /\ ~ScoreWithinBounds(Search(patterns(c)[1], content))
          /\ c \in DOMAIN scores
          /\ scores[c] = Search(patterns(c)[3], content)

\* the text holds the exact labelled form of c with value N
HasExact(text, c, N) ==
    \E i \in 1..(Len(text) - 1) :
        text[i] = Lab(c) /\ IsNumber(text[i + 1]) /\ float(text[i + 1]) = N

LooseWord(c) == IF c = "experience_match" THEN "alignment" ELSE LabelWord(c)

\* the text holds the loose form of c with value M: keyword ... M/10
HasLoose(text, c, M) ==
    \E i \in 1..Len(text) : \E j \in (i + 1)..Len(text) :
        Contains(text[i], LooseWord(c)) /\ text[j].k = "num10" /\ float(text[j]) = M

NumbersOf(text) == {float(text[i]) : i \in {j \in 1..Len(text) : IsNumber(text[j])}}

\* the value of the leftmost exact labelled form of c, NoMatch without one
LeftmostExact(text, c) ==
    LET S == {i \in 1..(Len(text) - 1) : text[i] = Lab(c) /\ IsNumber(text[i + 1])}
    IN  IF S = {} THEN NoMatch
        ELSE float(text[1 + CHOOSE i \in S : \A j \in S : i <= j])

\* C2 as stated: a text holding an exact labelled form with N and a loose form
\* with M for the same sub-score, N and M in [1,10] and different, yields N.
C2_AsStated ==
    extracted =>
        \A c \in CategorySet : \A N, M \in NumbersOf(content) :
            ( /\ ScoreWithinBounds(N) /\ ScoreWithinBounds(M) /\ N # M
              /\ HasExact(content, c, N) /\ HasLoose(content, c, M) )
                => c \in DOMAIN scores /\ scores[c] = N

\* C2 amended: the same, for N the value of the leftmost exact labelled form
\* of the sub-score, whichever of the two forms comes first in the text.
C2_LeftmostExactWins ==
    extracted =>
        \A c \in CategorySet : \A N, M \in NumbersOf(content) :
            ( /\ ScoreWithinBounds(N) /\ ScoreWithinBounds(M) /\ N # M
              /\ LeftmostExact(content, c) = N /\ HasLoose(content, c, M) )
                => c \in DOMAIN scores /\ scores[c] = N

\* the loose form comes first, the exact form after it, and the exact wins
C2_Witness ==
    /\ extracted
    /\ \E c \in CategorySet : \E i, j, n \in 1..Len(content) :
          /\ i < j /\ j < n /\ n < Len(content)
          /\ content[i] = Word(LooseWord(c))
          /\ content[j].k = "num10" /\ ScoreWithinBounds(float(content[j]))
          /\ content[n] = Lab(c) /\ content[n + 1].k = "num"
          /\ ScoreWithinBounds(float(content[n + 1]))
          /\ float(content[n + 1]) # float(content[j])
          /\ c \in DOMAIN scores /\ scores[c] = float(content[n + 1])

\* the standalone numbers of the text that lie in [1,10], in order
StandaloneInRange(text) == SelectSeq(all_scores(text), ScoreWithinBounds)

CanonicalOrder ==
    <<"knowledge_depth", "implementation", "best_practices", "clarity",
      "structure", "professionalism">>

\* C3: when no sub-score is found by label, the i-th standalone number in
\* [1,10] goes to the i-th name of the canonical order, for i up to min(k,6);
\* exactly three numbers fill the first three names and nothing else.
C3_PositionalAssignment ==
    (extracted /\ NoLabelFound(content)) =>
        LET valid == StandaloneInRange(content)
            k == Len(valid)
        IN  /\ \A i \in 1..6 :
                  i <= k => /\ CanonicalOrder[i] \in DOMAIN scores
                            /\ scores[CanonicalOrder[i]] = valid[i]
            /\ k = 3 => DOMAIN scores = {CanonicalOrder[1], CanonicalOrder[2], CanonicalOrder[3]}

\* three distinct-position numbers with out-of-range ones skipped on the way
C3_Witness ==
    /\ extracted
    /\ NoLabelFound(content)
    /\ Len(StandaloneInRange(content)) = 3
    /\ Len(all_scores(content)) > 3
    /\ DOMAIN scores = {"knowledge_depth", "implementation", "best_practices"}
    /\ scores["knowledge_depth"] # scores["implementation"]

\* C4: the fallback is applied only when no sub-score was found by label; a
\* fallback result has at most six keys and never experience_match.
C4_FallbackOnlyWhenEmpty ==
    extracted =>
        IF NoLabelFound(content)
        THEN /\ Cardinality(DOMAIN scores) <= 6
             /\ "experience_match" \notin DOMAIN scores
        ELSE \A c \in DOMAIN scores : scores[c] = Yield(c, content)

\* a label was found although the text holds further in-range numbers, which
\* the fallback would have handed to other names
C4_Witness ==
    /\ extracted
    /\ ~NoLabelFound(content)
    /\ Len(StandaloneInRange(content)) >= 7
    /\ Cardinality(DOMAIN scores) = 1

(***************************************************************************)
(* Properties of calculate_role_specific_metrics                           *)
(***************************************************************************)
AllFields(v) ==
    /\ metrics.domain_knowledge = v
    /\ metrics.methodology_understanding = v
    /\ metrics.practical_experience = v
    /\ metrics.overall_score = v

IsAssessment(m) == m.role = "assistant" /\ m.type = "assessment"

AssessmentsOf(msgs) == SelectSeq(msgs, IsAssessment)

\* the text holds nothing the extractor recognises: no labelled score and no
\* standalone number in [1,10]
Unparseable(text) == NoLabelFound(text) /\ StandaloneInRange(text) = <<>>

\* C5: a history without any assistant message of type 'assessment' (the
\* empty history included) gives 0 in all four fields.
C5_NoAssessmentGivesZeros ==
    (calculated /\ AssessmentsOf(messages) = <<>>) => AllFields(0)

\* a non-empty history that holds an assessment-typed user message
C5_Witness ==
    /\ calculated
    /\ AssessmentsOf(messages) = <<>>
    /\ \E i \in 1..Len(messages) : messages[i].type = "assessment"
    /\ AllFields(0)

MeanOf(gs) == IF gs = <<>> THEN <<>> ELSE <<Rat(SumSixths(gs), 6 * Len(gs))>>

OrSix(mean) == IF mean = <<>> THEN Rat(600, 1) ELSE mean[1]

\* 0.5 a + 0.3 b + 0.2 c for rationals a (domain), b (experience), c (methodology)
HalfThreeTwo(a, b, c) ==
    Rat(5 * a.n * b.d * c.d + 3 * b.n * a.d * c.d + 2 * c.n * a.d * b.d,
        10 * a.d * b.d * c.d)

FromReturnedFields ==
    Round1(Rat(5 * metrics.domain_knowledge + 3 * metrics.practical_experience
                 + 2 * metrics.methodology_understanding, 10))

IsTie(q) == 2 * (q.n % (10 * q.d)) = 10 * q.d

NeedsNoRounding(q) == q.n % (10 * q.d) = 0

Abs(x) == IF x < 0 THEN -x ELSE x

\* no decimal tie in any of the roundings involved, so that the binary
\* representation of the floats plays no part
TieFree ==
    LET lists == CollectScores(messages)
        a == OrSix(MeanOf(lists.technical))
        b == OrSix(MeanOf(lists.experience))
        c == OrSix(MeanOf(lists.communication))
    IN  /\ ~IsTie(a) /\ ~IsTie(b) /\ ~IsTie(c)
        /\ ~IsTie(HalfThreeTwo(a, b, c))
        /\ ~IsTie(Rat(5 * metrics.domain_knowledge + 3 * metrics.practical_experience
                        + 2 * metrics.methodology_understanding, 10))

\* C7 as stated: a non-zero result has overall_score equal to
\* round(0.5 dk + 0.3 pe + 0.2 mu, 1) computed from the three returned fields.
C7_AsStated ==
    (calculated /\ ~AllFields(0) /\ TieFree) =>
        metrics.overall_score = FromReturnedFields

\* C7 amended: a non-zero result has overall_score equal to
\* round(0.5 dk + 0.3 pe + 0.2 mu, 1) computed from the unrounded group
\* averages; it is within 0.1 of the value computed from the returned fields
\* and equal to it when the averages need no rounding (8.0, 7.0, 6.0 -> 7.3).
C7_OverallFromUnrounded ==
    (calculated /\ ~AllFields(0)) =>
        LET lists == CollectScores(messages)
            a == OrSix(MeanOf(lists.technical))
            b == OrSix(MeanOf(lists.experience))
            c == OrSix(MeanOf(lists.communication))
        IN  /\ metrics.overall_score = Round1(HalfThreeTwo(a, b, c))
            /\ Abs(metrics.overall_score - FromReturnedFields) <= 10
            /\ (NeedsNoRounding(a) /\ NeedsNoRounding(b) /\ NeedsNoRounding(c))
                  => metrics.overall_score = FromReturnedFields

\* the fields 8.0, 7.0 and 6.0 with overall 7.3
C7_Witness ==
    /\ calculated
    /\ metrics.domain_knowledge = 800
    /\ metrics.practical_experience = 700
    /\ metrics.methodology_understanding = 600
    /\ metrics.overall_score = 730

\* C8: when some group has a sample and another has none, the field of the
\* empty group is exactly 6.0 and overall_score is computed with 6.0 in its
\* place; a group with a sample gets its own mean, never the substitute.
C8_EmptyGroupGetsSix ==
    LET lists == CollectScores(messages)
        t == MeanOf(lists.technical)
        c == MeanOf(lists.communication)
        e == MeanOf(lists.experience)
        Field(mean) == IF mean = <<>> THEN 600 ELSE Round1(mean[1])
    IN  ( /\ calculated
          /\ (t # <<>> \/ c # <<>> \/ e # <<>>)
          /\ (t = <<>> \/ c = <<>> \/ e = <<>>) ) =>
            /\ metrics.domain_knowledge = Field(t)
            /\ metrics.methodology_understanding = Field(c)
            /\ metrics.practical_experience = Field(e)
            /\ metrics.overall_score = Round1(HalfThreeTwo(OrSix(t), OrSix(e), OrSix(c)))

\* technical and experience samples, no communication sample
C8_Witness ==
    /\ calculated
    /\ CollectScores(messages).technical # <<>>
    /\ CollectScores(messages).experience # <<>>
    /\ CollectScores(messages).communication = <<>>
    /\ metrics.methodology_understanding = 600
    /\ metrics.practical_experience # 600
    /\ metrics.domain_knowledge # 600

(***************************************************************************)
(* Properties of evaluate_response                                         *)
(***************************************************************************)
\* the number of leading pieces of s before the first occurrence of marker
LeadingWithout(s, marker) ==
    Cardinality({i \in 1..Len(s) : \A j \in 1..i : s[j] # marker})

NonBlank(s) == {i \in 1..Len(s) : s[i] # " "}

\* s without its leading and trailing blanks
Trimmed(s) ==
    IF NonBlank(s) = {} THEN <<>>
    ELSE SubSeq(s, CHOOSE i \in NonBlank(s) : \A j \in NonBlank(s) : i <= j,
                   CHOOSE i \in NonBlank(s) : \A j \in NonBlank(s) : i >= j)

\* the three fields the claim prescribes for a reply
Prescribed(reply) ==
    LET cut == LeadingWithout(reply, "Follow-up Question:") + 1
        remainder == SubSeq(reply, cut + 1, Len(reply))
        cut2 == LeadingWithout(remainder, "Expected Answer:") + 1
    IN  [assessment |-> Trimmed(SubSeq(reply, 1, cut - 1)),
         follow_up_question |->
             IF cut > Len(reply) THEN <<"No follow-up provided.">>
             ELSE Trimmed(SubSeq(remainder, 1, cut2 - 1)),
         follow_up_expected |->
             IF cut > Len(reply) \/ cut2 > Len(remainder)
             THEN <<"No model answer for follow-up.">>
             ELSE Trimmed(SubSeq(remainder, cut2 + 1, Len(remainder)))]

\* C9: evaluate_response cuts the reply once at the first "Follow-up
\* Question:" and the remainder once at the first "Expected Answer:"; the
\* assessment, the follow-up question and the model answer are the trimmed
\* texts before, between and after the markers; a missing first marker gives
\* the follow-up question "No follow-up provided.", a follow-up part without
\* the second marker gives the model answer "No model answer for follow-up.",
\* and every non-empty reply is evaluated without an error.
C9_SplitAtFirstMarkers ==
    /\ evaluated => evaluation = Prescribed(response_text)
    /\ (~evaluated /\ response_text # <<>>) => ENABLED Evaluate

\* a reply with the first marker twice and a blank after the assessment has
\* been evaluated: the second occurrence is the follow-up question
C9_Witness ==
    /\ evaluated
    /\ response_text = <<"text", " ", "Follow-up Question:", "Follow-up Question:",
                         "Expected Answer:">>
    /\ evaluation.assessment = <<"text">>
    /\ evaluation.follow_up_question = <<"Follow-up Question:">>
    /\ evaluation.follow_up_expected = <<>>

(***************************************************************************)
(* Properties of the retry wrapper                                         *)
(***************************************************************************)
\* the letters of word occur in message consecutively, in either case
Mentions(message, word) ==
    \E i \in 1..(Len(message) - Len(word) + 1) :
        \A k \in 1..Len(word) :
            \/ message[i + k - 1] = word[k]
            \/ \E n \in 1..26 : LowerCase[n] = word[k] /\ UpperCase[n] = message[i + k - 1]

Fatal(attempt) ==
    /\ ~attempt.ok
    /\ \/ Mentions(attempt.value, <<"q", "u", "o", "t", "a">>)
       \/ Mentions(attempt.value, <<"i", "n", "v", "a", "l", "i", "d">>)

\* C10: an error that mentions "quota" or "invalid" in any case, on the first
\* or a later attempt, ends the call at once: that invocation is the last
\* one, no sleep follows it (one sleep before each attempt but the first),
\* an error has been raised to the caller, and the attempts not yet made
\* stay unused.
C10_FatalErrorEndsCall ==
    \A i \in 1..Len(calls) :
        Fatal(calls[i]) =>
            /\ i = Len(calls)
            /\ Len(sleeps) = i - 1
            /\ pc = "raised"
            /\ outcome.kind = "raise"
            /\ outcome.value # None
            /\ retries = i - 1
            /\ ~ENABLED NextRetry

\* the second attempt failed with "INVALID" after an ordinary failure: the
\* call has ended with two invocations and one sleep
C10_Witness ==
    /\ Len(calls) = 2
    /\ ~calls[1].ok
    /\ calls[2] = [ok |-> FALSE, value |-> <<"I", "N", "V", "A", "L", "I", "D">>]
    /\ pc = "raised"
    /\ sleeps = <<2>>
    /\ retries = 1

\* the attempt failed with an error the wrapper retries
Transient(attempt) == ~attempt.ok /\ ~Fatal(attempt)

\* C11: the wrapped call is invoked at most 3 times, and at least once by the
\* time the wrapper is left; a success is the last invocation and its result
\* is what the wrapper returns; after three failures that are neither quota
\* nor invalid-credential errors the error of the third is raised; the
\* wrapper never returns None.
C11_BoundedAttempts ==
    /\ Len(calls) <= 3
    /\ pc \in {"returned", "raised"} => Len(calls) >= 1
    /\ \A i \in 1..Len(calls) :
           calls[i].ok => /\ i = Len(calls)
                          /\ pc = "returned"
                          /\ outcome = [kind |-> "return", value |-> calls[i].value]
    /\ (Len(calls) = 3 /\ \A i \in 1..3 : Transient(calls[i])) =>
           /\ pc = "raised"
           /\ outcome = [kind |-> "raise", value |-> calls[3].value]
    /\ ~(outcome.kind = "return" /\ outcome.value = <<>>)
    /\ pc = "returned" => calls[Len(calls)].ok

\* three ordinary failures, the third with another message than the first
\* two: its error is the one raised
C11_Witness ==
    /\ Len(calls) = 3
    /\ \A i \in 1..3 : Transient(calls[i])
    /\ calls[3].value # calls[1].value
    /\ calls[3].value # calls[2].value
    /\ pc = "raised"
    /\ outcome.value = calls[3].value

\* C20: no sleep precedes the first attempt; the sleep before the second is
\* the base delay and each further one is twice the one before; for the
\* decorated functions (base delay 2, 3 attempts) the sleeps are 2 and then
\* 4, and none follows the last attempt.
C20_BackoffDoubles ==
    /\ Len(calls) <= 1 => sleeps = <<>>
    /\ Len(calls) >= 1 => Len(sleeps) = Len(calls) - 1
    /\ Len(sleeps) >= 1 => sleeps[1] = decoration.delay
    /\ \A k \in 2..Len(sleeps) : sleeps[k] = 2 * sleeps[k - 1]
    /\ sleeps \in {<<>>, <<2>>, <<2, 4>>}

\* all three attempts have failed: two sleeps, none after the third failure
C20_Witness ==
    /\ Len(calls) = 3
    /\ ~calls[3].ok
    /\ pc = "raised"
    /\ sleeps = <<2, 4>>

(***************************************************************************)
(* Properties of validate_user_input                                       *)
(***************************************************************************)
\* the characters of s that remain when the blanks at both ends are dropped
CoreLength(s) ==
    IF NonBlank(s) = {} THEN 0
    ELSE 1 + (CHOOSE i \in NonBlank(s) : \A j \in NonBlank(s) : i >= j)
           - (CHOOSE i \in NonBlank(s) : \A j \in NonBlank(s) : i <= j)

\* the value validate_user_input must return for the typed input
C14_Outcome ==
    validated =>
        IF CoreLength(user_input) >= 10
        THEN validation = <<TRUE, <<>>>>
        ELSE /\ Len(validation) = 2
             /\ validation[1] = FALSE
             /\ validation[2] # <<>>

\* C14: validate_user_input returns a value for every input and never
\* raises: (True, None) when the input has at least 10 characters once the
\* blanks at both ends are stripped, (False, an error message) when it is
\* empty or shorter; the call changes no session state.
C14_ValidationOutcome ==
    /\ [](C14_Outcome /\ (~validated => ENABLED Validate))
    /\ [][validated' # validated => UNCHANGED <<sessionVars, messages>>]_vars

\* an input of 11 characters of which only 9 remain after stripping has been
\* rejected
C14_Witness ==
    /\ validated
    /\ Len(user_input) = 11
    /\ user_input[1] = " "
    /\ user_input[11] = " "
    /\ \A i \in 2..10 : user_input[i] = "a"
    /\ validation = <<FALSE, InvalidInput>>

(***************************************************************************)
(* The transcript under the scoring functions                              *)
(***************************************************************************)
\* C15: a call of calculate_role_specific_metrics (and of
\* extract_scores_from_text, which it makes for each assessment) leaves the
\* message sequence it was given as it was: same length, same order, same
\* entries; a call of extract_scores_from_text leaves its text as it was.
C15_TranscriptUnchanged ==
    [][/\ (calculated' # calculated) => messages' = messages
       /\ (extracted' # extracted) => content' = content]_vars

\* metrics have been computed from a transcript of three messages, one of
\* them not an assessment, and the transcript is still there
C15_Witness ==
    /\ calculated
    /\ Len(messages) = 3
    /\ \E i \in 1..3 : messages[i].role = "user"
    /\ \E i \in 1..3 : messages[i].role = "assistant" /\ messages[i].type = "assessment"
    /\ metrics # ZeroMetrics

(***************************************************************************)
(* Properties of the controller                                            *)
(***************************************************************************)
\* this step is a call of the controller, and the record of that call
\* the step is a call of the named operation, or of the answer handler
ThisCall == returned'[Len(returned')]
IsCallOf(name) == Len(returned') = Len(returned) + 1 /\ ThisCall.call = name
IsCall == IsCallOf("process_user_response") \/ IsCallOf("handle_user_input")

TooShort(input) == Cardinality(NonBlank(input)) < 10

\* the answer passes the validation and the rate limit lets it through now
Admissible(input) == ~TooShort(input) /\ now - last_request_time >= 2

\* C13: an answer that is empty or has fewer than 10 non-blank characters is
\* refused by the input validation with a message to the user (the warning
\* box of line 60), without a model call, without a new transcript entry and
\* with the session statistics as they were.
C13_AsStated ==
    [][(IsCall /\ TooShort(ThisCall.input)) =>
           /\ ~ThisCall.result
           /\ Len(shown') = Len(shown) + 1
           /\ shown'[Len(shown')].level = "warning"
           /\ evaluations' = evaluations
           /\ messages' = messages
           /\ session_stats' = session_stats]_vars

\* C16: each answer that passes the validation and the rate limit triggers
\* exactly one call of evaluate_response, no call triggers more than one,
\* and no evaluation starts while is_processing is true.
C16_AsStated ==
    [][IsCall =>
           /\ Admissible(ThisCall.input) => Len(evaluations') = Len(evaluations) + 1
           /\ Len(evaluations') <= Len(evaluations) + 1
           /\ is_processing => evaluations' = evaluations]_vars

\* C17: an answer that passes the validation and the rate limit and whose
\* evaluation succeeds is processed successfully, and the metrics stored
\* afterwards are calculate_role_specific_metrics of the whole transcript.
C17_AsStated ==
    [][(IsCall /\ Admissible(ThisCall.input) /\ ThisCall.llm.ok) =>
           /\ ThisCall.result
           /\ session_stats'.role_specific_metrics =
                  calculate_role_specific_metrics("Software Engineer", "0-2 years",
                                                  messages')]_vars

C19_AsStated ==
    analyzed =>
        LET exp_expect == exp_expectations(experience_level)
        IN  /\ analysis.score.k = "fin"
            /\ Floor(exp_expect) <= analysis.score.v
            /\ analysis.score.v <= Ceiling(exp_expect)
            /\ response.kind # "json" => analysis.score.v = Floor(exp_expect)

\* the assessments of the transcript, by position, and the scores read from
\* each of them
AssessmentAt == {i \in 1..Len(messages) : IsAssessment(messages[i])}
ScoresAt == [i \in AssessmentAt |-> extract_scores_from_text(messages[i].content)]

\* what assessment i gives to a group: the keys of the group it has a score
\* for, and those that give something
PresentAt(sc, i, keys) == keys \cap DOMAIN sc[i]
Contributing(sc, keys) == {i \in DOMAIN sc : PresentAt(sc, i, keys) # {}}

\* six times the mean of the sub-scores assessment i has for the group
SixMeansAt(sc, i, keys) ==
    SumOver(sc[i], PresentAt(sc, i, keys)) * (6 \div Cardinality(PresentAt(sc, i, keys)))

RECURSIVE TotalOfMeans(_, _, _)
TotalOfMeans(sc, S, keys) ==
    IF S = {} THEN 0
    ELSE LET i == CHOOSE j \in S : TRUE
         IN  SixMeansAt(sc, i, keys) + TotalOfMeans(sc, S \ {i}, keys)

\* the field is the mean of the per-assessment means over the contributing
\* assessments, to the nearest tenth
NearestTenth(field, total, count) ==
    count # 0 => field % 10 = 0 /\ Abs(6 * count * field - total) <= 30 * count
IsMeanOfMeans(sc, field, keys) ==
    NearestTenth(field, TotalOfMeans(sc, Contributing(sc, keys), keys),
                 Cardinality(Contributing(sc, keys)))

\* the three group fields are means of means of the given scores
AreMeansOfMeans(sc) ==
    /\ IsMeanOfMeans(sc, metrics.domain_knowledge, technical_keys)
    /\ IsMeanOfMeans(sc, metrics.methodology_understanding, communication_keys)
    /\ IsMeanOfMeans(sc, metrics.practical_experience, experience_keys)

\* C21: each group field is the mean, over the assessments that have a
\* sub-score of the group, of the mean of the sub-scores each of them has
\* (rounded to one decimal); an assessment without a sub-score of the group
\* is not counted.
C21_MeanOfMeans == calculated => AreMeansOfMeans(ScoresAt)

\* two assessments with three and one technical sub-scores, the second
\* without any communication sub-score: 7.4 where the pooled mean is 7.1
C21_Witness ==
    /\ calculated
    /\ Cardinality(Contributing(ScoresAt, technical_keys)) = 2
    /\ Cardinality(Contributing(ScoresAt, communication_keys)) = 1
    /\ \E i, j \in Contributing(ScoresAt, technical_keys) :
          /\ Cardinality(PresentAt(ScoresAt, i, technical_keys)) = 3
          /\ Cardinality(PresentAt(ScoresAt, j, technical_keys)) = 1
    /\ metrics.domain_knowledge = 740
    /\ metrics.methodology_understanding = 800

\* the three group fields of the result
Components ==
    {metrics.domain_knowledge, metrics.methodology_understanding,
     metrics.practical_experience}

\* C22: the four fields of the result lie in [0,10]: either all are 0 or
\* all lie in [1,10], and overall_score is not below the least and not above
\* the greatest of the three group fields.
C22_FieldsInRange ==
    calculated =>
        /\ \A f \in DOMAIN metrics : 0 <= metrics[f] /\ metrics[f] <= 1000
        /\ \/ AllFields(0)
           \/ \A f \in DOMAIN metrics : 100 <= metrics[f] /\ metrics[f] <= 1000
        /\ \E c \in Components : c <= metrics.overall_score
        /\ \E c \in Components : metrics.overall_score <= c

\* a non-zero result from a history that holds a 0 and an 11, whose overall
\* score lies strictly between two of its components
C22_Witness ==
    /\ calculated
    /\ ~AllFields(0)
    /\ \E i \in 1..Len(messages) :
          IsAssessment(messages[i]) /\ messages[i].content = ReplyOutOfRange
    /\ \E c \in Components : c < metrics.overall_score
    /\ \E c \in Components : metrics.overall_score < c

\* the history that holds nothing but the given assessment contents, in order
OnlyAssessments(msgs) ==
    [i \in 1..Len(AssessmentsOf(msgs)) |->
        Message("assistant", "assessment", AssessmentsOf(msgs)[i].content)]

\* the metrics are what the call gives for the history, whatever the role and
\* the experience
IsResultFor(msgs) ==
    \A role \in Roles : \A experience \in Levels :
        metrics = calculate_role_specific_metrics(role, experience, msgs)

\* C23: the result is the one the call gives, for any role and experience,
\* on the history reduced to the contents of its assistant messages of type
\* 'assessment' in order; so two histories with the same assessment contents
\* give the same metrics whatever else they hold and whatever the role and
\* experience arguments are.
C23_OnlyAssessmentsCount == calculated => IsResultFor(OnlyAssessments(messages))

\* a non-zero result from a history that interleaves a user message typed
\* 'assessment' and a question carrying scores with one assessment
C23_Witness ==
    /\ calculated
    /\ ~AllFields(0)
    /\ Len(AssessmentsOf(messages)) = 1
    /\ \E i, j \in 1..Len(messages) :
          /\ i < j
          /\ messages[i].role = "user" /\ messages[i].type = "assessment"
          /\ IsAssessment(messages[j])
    /\ \E i \in 1..Len(messages) : messages[i].type = "question"

\* C24: a call of check_rate_limit is granted exactly when at least one
\* second has passed since last_request_time, which is the time of the last
\* grant (or of the initialisation) because only a grant changes it; so two
\* grants are at least one second apart.  A grant sets last_request_time to
\* the current time and adds 1 to request_count; a denial changes neither
\* and reports a wait that is positive and at most one second.
C24_RateLimit ==
    /\ [][IsCallOf("check_rate_limit") =>
             /\ ThisCall.result[1] <=> now - last_request_time >= ONE_SECOND
             /\ ThisCall.result[1] =>
                   /\ last_request_time' = now
                   /\ request_count' = request_count + 1
             /\ ~ThisCall.result[1] =>
                   /\ last_request_time' = last_request_time
                   /\ request_count' = request_count
                   /\ 0 < ThisCall.result[2]
                   /\ ThisCall.result[2] <= ONE_SECOND]_vars
    /\ [][last_request_time' # last_request_time =>
             IsCallOf("check_rate_limit") /\ ThisCall.result[1]]_vars

\* two grants, one second and two seconds after the initialisation, and then
\* a denial at the time of the second grant, with a full second to wait
C24_Witness ==
    /\ Len(returned) = 3
    /\ \A i \in 1..3 : returned[i].call = "check_rate_limit"
    /\ request_count = 2
    /\ last_request_time = 2 * ONE_SECOND
    /\ ~returned[3].result[1]
    /\ returned[3].result[2] = ONE_SECOND

\* C27: reset_interview empties the transcript, sets total_questions to 0 and
\* role_specific_metrics to empty, sets interview_started and is_processing
\* to False, and leaves interview_history, request_count and
\* last_request_time as they were; the export made after it holds every
\* history entry recorded before it.
C27_ResetFrame ==
    [][IsCallOf("reset_interview") =>
          /\ messages' = <<>>
          /\ session_stats'.total_questions = 0
          /\ session_stats'.role_specific_metrics = <<>>
          /\ ~interview_started'
          /\ ~is_processing'
          /\ interview_history' = interview_history
          /\ request_count' = request_count
          /\ last_request_time' = last_request_time
          /\ export_history(Session, now)'.history = interview_history]_vars

\* a reset has just been made in a session with a history entry and a
\* granted request
C27_Witness ==
    /\ returned # <<>>
    /\ returned[Len(returned)].call = "reset_interview"
    /\ messages = <<>>
    /\ session_stats = NoStats
    /\ Len(interview_history) = 1
    /\ export_history(Session, now).history = interview_history
    /\ request_count = 1
    /\ last_request_time >= ONE_SECOND

\* C25: when process_user_response has returned, whichever way it ended,
\* is_processing is False and current_response is empty, also when the
\* session was marked as processing before the call.
C25_ProcessingStateReset ==
    [][IsCallOf("process_user_response") =>
          ~is_processing' /\ current_response' = <<>>]_vars

\* the call was made in a session marked as processing and has returned
C25_Witness ==
    /\ Len(returned) >= 2
    /\ returned[Len(returned) - 1].call = "set_processing_state"
    /\ returned[Len(returned)].call = "process_user_response"
    /\ ~is_processing
    /\ current_response = <<>>

Progressive(question_count) ==
    IF 600 + 50 * question_count <= 850 THEN 600 + 50 * question_count ELSE 850

\* C28: an admitted answer whose evaluation succeeds is processed
\* successfully and the metrics stored are not all zero: when
\* calculate_role_specific_metrics gives all zeros for the transcript, the
\* stored ones are base = min(6.0 + 0.5 * (n + 1), 8.5), n being
\* total_questions before the call, for domain_knowledge and overall_score,
\* base - 0.2 for methodology_understanding and base - 0.1 for
\* practical_experience.
C28_AsStated ==
    [][(IsCallOf("process_user_response") /\ Admissible(ThisCall.input) /\ ThisCall.llm.ok) =>
           /\ ThisCall.result
           /\ session_stats'.role_specific_metrics # ZeroMetrics
           /\ calculate_role_specific_metrics("Software Engineer", "0-2 years", messages')
                  = ZeroMetrics =>
                 session_stats'.role_specific_metrics =
                     Metrics(Progressive(session_stats.total_questions + 1),
                             Progressive(session_stats.total_questions + 1) - 20,
                             Progressive(session_stats.total_questions + 1) - 10,
                             Progressive(session_stats.total_questions + 1))]_vars

\* C29: an answer of at least 10 characters, submitted when the rate limit
\* allows it and evaluated successfully, makes process_user_response return
\* True, append the user answer, the assessment and the follow-up question
\* to the transcript in that order, append one history entry, whose question
\* is the latest question the transcript held before the answer, and add 1
\* to total_questions.
C29_AsStated ==
    [][(IsCallOf("process_user_response") /\ Admissible(ThisCall.input) /\ ThisCall.llm.ok) =>
           /\ ThisCall.result
           /\ messages' = messages \o
                 <<Message("user", "message", ThisCall.input),
                   Message("assistant", "assessment", ThisCall.llm.assessment),
                   Message("assistant", "question",
                           [question |-> ThisCall.llm.follow_up_question,
                            expected_answer |-> ThisCall.llm.follow_up_expected])>>
           /\ Len(interview_history') = Len(interview_history) + 1
           /\ interview_history'[Len(interview_history')].question =
                  get_last_question(messages).question
           /\ session_stats'.total_questions = session_stats.total_questions + 1]_vars

\* C30: start_interview returns without raising; when the question was
\* generated it appends that one question as an assistant message of type
\* 'question' and sets interview_started; when the generation failed it
\* appends nothing and leaves interview_started as it was.
C30_StartInterview ==
    [][IsCallOf("start_interview") =>
          /\ ThisCall.result = None
          /\ ThisCall.llm.ok =>
                /\ messages' = Append(messages,
                                      Message("assistant", "question", ThisCall.llm.value))
                /\ interview_started'
          /\ ~ThisCall.llm.ok =>
                /\ messages' = messages
                /\ interview_started' = interview_started]_vars

\* a failed start in a session that was not started, after which an
\* interview was started
C30_Witness ==
    /\ Len(returned) >= 2
    /\ returned[Len(returned)].call = "start_interview"
    /\ returned[Len(returned)].llm.ok
    /\ interview_started
    /\ Len(messages) = 1
    /\ messages[1].type = "question"
    /\ shown # <<>>
    /\ shown[1].level = "error"
    /\ \A i \in 1..Len(returned) : returned[i].call = "start_interview"

====
